---- MODULE Spec2Model ----
(***************************************************************************)
(* Model of ai-service/app.py: the AccidentDetector and the four Flask     *)
(* endpoints that use the module-level detector.                           *)
(*                                                                         *)
(* Numbers.  Every sensor quantity is held in tenths of its unit, so that  *)
(* the default accelerometer z of -9.8 is the integer -98 and a comparison *)
(* such as speed > 100 reads val > 1000.  A comparison of a vector norm    *)
(* with a threshold, sqrt(s) > k, is made on the squares, s > k*k.         *)
(* Probabilities and confidences are held in hundredths (0..100), and the  *)
(* rounded risk score in tenths (0..1000).                                 *)
(***************************************************************************)
EXTENDS Integers, Sequences, FiniteSets, TLC

VARIABLES
    is_trained,       \* detector.is_trained
    estimators,       \* the fitted scaler and models of the detector
    request,          \* the request of the handler that ran last
    analysis,         \* what detector.detect_accident returned to that handler
    risk_assessment,  \* what detector.assess_driving_risk returned to it
    response          \* the handler's HTTP status and JSON body

vars == <<is_trained, estimators, request, analysis, risk_assessment, response>>

(***************************************************************************)
(* JSON values and Python dictionaries                                     *)
(***************************************************************************)
\* a JSON number, in tenths
Num(n) == [kind |-> "num", val |-> n]

\* a JSON string that is not a number, such as "abc"
Str == [kind |-> "str", val |-> 0]

IsNum(v) == v.kind = "num"

\* the empty dictionary {}
EmptyDict == [k \in {} |-> 0]

\* dict.get(key, default)
Get(d, key, default) == IF key \in DOMAIN d THEN d[key] ELSE default

\* a local of a handler that was not assigned
NotCalled == [not_called |-> TRUE]

Abs(n) == IF n < 0 THEN 0 - n ELSE n

\* x**2 + y**2 + z**2 of three JSON numbers (in hundredths of the unit squared)
SumSquares(x, y, z) == x.val * x.val + y.val * y.val + z.val * z.val

(***************************************************************************)
(* AccidentDetector: the fitted estimators                                 *)
(*                                                                         *)
(* scaler.transform followed by an estimator's predict is a fixed function *)
(* of the nine raw features, fixed by the fit.  The fit is held as an      *)
(* index into a family of such functions; at every feature vector the      *)
(* family takes every probability level with every anomaly verdict.        *)
(***************************************************************************)
\* the estimators before (or without) a completed fit
Unfitted == 0 - 1

\* the fits _train_models can leave behind
Fits == 0 .. 11

\* accident probabilities (hundredths) around the two thresholds 0.4 and 0.7
ProbLevels == <<0, 40, 41, 70, 71, 100>>

\* the point of the nine features at which the fitted functions are read
FeatureKey(features) ==
    Abs(features[1].val) + Abs(features[2].val) + Abs(features[3].val)
    + Abs(features[4].val) + Abs(features[5].val) + Abs(features[6].val)
    + Abs(features[7].val) + Abs(features[8].val) + Abs(features[9].val)

\* accident_model.predict_proba(features_scaled)[0][1]
predict_proba(fit, features) ==
    ProbLevels[((FeatureKey(features) + fit) % 6) + 1]

\* anomaly_detector.predict(features_scaled)[0] == -1
anomaly_predict(fit, features) ==
    ((FeatureKey(features) + fit) \div 6) % 2 = 1

\* anomaly_detector.score_samples(features_scaled)[0] (hundredths): an
\* outlier is a sample whose score lies below the fitted offset
score_samples(fit, features) ==
    IF anomaly_predict(fit, features) THEN 0 - 60 ELSE 0 - 40

\* risk_model.predict(features_scaled)[0]
risk_predict(fit, features) == (FeatureKey(features) + fit) % 3

RiskNames == <<"low", "medium", "high">>

\* the feature list of detect_accident
Features(sensor_data) ==
    << Get(Get(sensor_data, "accelerometer", EmptyDict), "x", Num(0)),
       Get(Get(sensor_data, "accelerometer", EmptyDict), "y", Num(0)),
       Get(Get(sensor_data, "accelerometer", EmptyDict), "z", Num(0 - 98)),
       Get(Get(sensor_data, "gyroscope", EmptyDict), "x", Num(0)),
       Get(Get(sensor_data, "gyroscope", EmptyDict), "y", Num(0)),
       Get(Get(sensor_data, "gyroscope", EmptyDict), "z", Num(0)),
       Get(sensor_data, "speed", Num(0)),
       Get(sensor_data, "heartRate", Num(750)),
       Get(sensor_data, "oxygenLevel", Num(980)) >>

\* AccidentDetected with a fault: >= in place of >
AccidentDetectedInclusive(accident_prob, is_anomaly) ==
    accident_prob >= 70 \/ (is_anomaly /\ accident_prob >= 40)

\* accident_prob > 0.7 or (is_anomaly and accident_prob > 0.4)
AccidentDetected(accident_prob, is_anomaly) ==
    accident_prob > 70 \/ (is_anomaly /\ accident_prob > 40)

\* AccidentDetector.detect_accident
detect_accident(trained, fit, sensor_data) ==
    IF ~trained
    THEN [error |-> "Models not trained"]
    ELSE LET features == Features(sensor_data) IN
         IF \E i \in 1 .. 9 : ~IsNum(features[i])
         THEN [error |-> "ValueError"]   \* scaler.transform raises
         ELSE LET accident_prob == predict_proba(fit, features)
                  is_anomaly == anomaly_predict(fit, features)
                  accident_detected == AccidentDetected(accident_prob, is_anomaly)
              IN  [accident_detected |-> accident_detected,
                   accident_probability |-> accident_prob,
                   anomaly_score |-> score_samples(fit, features),
                   risk_level |-> RiskNames[risk_predict(fit, features) + 1],
                   confidence |-> IF accident_detected
                                  THEN accident_prob
                                  ELSE 100 - accident_prob]

(***************************************************************************)
(* AccidentDetector.assess_driving_risk                                    *)
(***************************************************************************)
\* the seven values the loop body reads from one record of the history
RecordReads(record) ==
    LET sensor_data == Get(record, "sensorData", EmptyDict)
        accel == Get(sensor_data, "accelerometer", EmptyDict)
        gyro == Get(sensor_data, "gyroscope", EmptyDict)
    IN  [speed |-> Get(sensor_data, "speed", Num(0)),
         ax |-> Get(accel, "x", Num(0)),
         ay |-> Get(accel, "y", Num(0)),
         az |-> Get(accel, "z", Num(0 - 98)),
         gx |-> Get(gyro, "x", Num(0)),
         gy |-> Get(gyro, "y", Num(0)),
         gz |-> Get(gyro, "z", Num(0))]

\* the loop body raises TypeError on a value that is not a number
RecordRaises(record) ==
    LET r == RecordReads(record) IN
    \E f \in DOMAIN r : ~IsNum(r[f])

\* what one record adds to total_score
RecordScore(record) ==
    LET r == RecordReads(record)
        accel2 == SumSquares(r.ax, r.ay, r.az)
        gyro2 == SumSquares(r.gx, r.gy, r.gz)
    IN  (IF r.speed.val > 1000 THEN 10 ELSE IF r.speed.val > 800 THEN 5 ELSE 0)
        + (IF accel2 > 150 * 150 THEN 8 ELSE IF accel2 > 120 * 120 THEN 4 ELSE 0)
        + (IF gyro2 > 30 * 30 THEN 6 ELSE IF gyro2 > 20 * 20 THEN 3 ELSE 0)

\* what one record appends to risk_factors
RecordFactors(record) ==
    LET r == RecordReads(record) IN
    (IF r.speed.val > 1000 THEN {"Excessive speeding detected"} ELSE {})
    \cup (IF SumSquares(r.ax, r.ay, r.az) > 150 * 150
          THEN {"Hard braking/acceleration detected"} ELSE {})
    \cup (IF SumSquares(r.gx, r.gy, r.gz) > 30 * 30
          THEN {"Sharp turns detected"} ELSE {})

\* RecentRecords with a fault: the whole history, not its last 100 records
WholeHistory(driving_history) == driving_history

\* driving_history[-100:]
RecentRecords(driving_history) ==
    IF Len(driving_history) <= 100
    THEN driving_history
    ELSE SubSeq(driving_history, Len(driving_history) - 99, Len(driving_history))

\* the distinct records among records
Kinds(records) == {records[i] : i \in 1 .. Len(records)}

\* how many times record r occurs in records
Occurrences(records, r) ==
    Cardinality({i \in 1 .. Len(records) : records[i] = r})

RECURSIVE TotalScore(_, _)
\* total_score after the loop: the sum of RecordScore over records, taken
\* kind by kind (kinds is the set of distinct records still to add)
TotalScore(records, kinds) ==
    IF kinds = {} THEN 0
    ELSE LET r == CHOOSE k \in kinds : TRUE IN
         RecordScore(r) * Occurrences(records, r)
         + TotalScore(records, kinds \ {r})

\* RiskScore with a fault: the clamp to 0..100 left out
RiskScoreUnclamped(total_score, n) ==
    [num |-> 500 * n + 100 * total_score, den |-> n]

\* min(100, max(0, 50 + (total_score / n * 10))), in tenths, as the exact
\* fraction num / den
RiskScore(total_score, n) ==
    LET num == 500 * n + 100 * total_score IN
    IF num > 1000 * n THEN [num |-> 1000 * n, den |-> n]
    ELSE IF num < 0 THEN [num |-> 0, den |-> n]
    ELSE [num |-> num, den |-> n]

\* round(risk_score, 1): to the nearest tenth, a tie to the even one
Round1(score) ==
    LET q == score.num \div score.den
        r == score.num % score.den
    IN  IF 2 * r > score.den THEN q + 1
        ELSE IF 2 * r < score.den THEN q
        ELSE IF q % 2 = 0 THEN q ELSE q + 1

\* the threshold chain on the unrounded risk_score
RiskLevel(score) ==
    IF score.num > 800 * score.den THEN "high"
    ELSE IF score.num > 600 * score.den THEN "medium"
    ELSE "low"

\* the recommendations dictionary of _get_safety_recommendations
Recommendations ==
    [low |-> <<"Continue maintaining safe driving habits",
               "Regular vehicle maintenance checks",
               "Stay alert and avoid distractions">>,
     medium |-> <<"Reduce speed and maintain safe following distance",
                  "Avoid aggressive acceleration and braking",
                  "Take breaks during long drives",
                  "Check tire pressure and brake condition">>,
     high |-> <<"Immediately reduce driving speed",
                "Avoid driving during peak traffic hours",
                "Consider defensive driving course",
                "Have vehicle inspected by mechanic",
                "Take frequent breaks and stay hydrated",
                "Avoid night driving if possible">>]

\* AccidentDetector._get_safety_recommendations
get_safety_recommendations(risk_level) ==
    Get(Recommendations, risk_level, Recommendations["medium"])

\* AccidentDetector.assess_driving_risk
assess_driving_risk(driving_history) ==
    IF driving_history = << >>
    THEN [risk_score |-> 500, risk_level |-> "medium"]
    ELSE LET recent == RecentRecords(driving_history)
             kinds == Kinds(recent)
         IN
         IF \E r \in kinds : RecordRaises(r)
         THEN [error |-> "TypeError"]
         ELSE LET total_score == TotalScore(recent, kinds)
                  risk_score == RiskScore(total_score,
                                          Len(RecentRecords(driving_history)))
                  risk_level == RiskLevel(risk_score)
              IN  [risk_score |-> Round1(risk_score),
                   risk_level |-> risk_level,
                   risk_factors |-> UNION {RecordFactors(r) : r \in kinds},
                   recommendations |-> get_safety_recommendations(risk_level)]

(***************************************************************************)
(* The endpoints.  A request is [endpoint, json, data]: json tells whether *)
(* request.get_json() returns (it raises on a body that is not JSON), data *)
(* is the dictionary it returns.  Each handler is an operator giving the   *)
(* locals analysis and risk_assessment and the response it leaves.         *)
(***************************************************************************)
Reply(status, body) == [status |-> status, body |-> body]

\* the except branch of a handler: jsonify({'error': str(e)}), 500
ErrorReply(e) == Reply(500, [error |-> e])

\* health_check
health_check(trained) ==
    Reply(200, [status |-> "healthy",
                service |-> "AI Emergency Detection Service",
                version |-> "1.0.0",
                models_trained |-> trained])

\* HeartRateOf with a fault: a default other than 75
HeartRateOfOtherDefault(sensor_data) == Get(sensor_data, "heartRate", Num(1100))

\* sensor_data.get('heartRate', 75)
HeartRateOf(sensor_data) == Get(sensor_data, "heartRate", Num(750))

\* sensor_data.get('oxygenLevel', 98)
OxygenLevelOf(sensor_data) == Get(sensor_data, "oxygenLevel", Num(980))

\* RecommendedAction with a fault: the last recommendation, not the first
RecommendedActionLast(recommendations) ==
    IF recommendations # << >>
    THEN recommendations[Len(recommendations)]
    ELSE "Monitor situation"

\* recommendations[0] if recommendations else 'Monitor situation'
RecommendedAction(recommendations) ==
    IF recommendations # << >> THEN recommendations[1] ELSE "Monitor situation"

\* analyze_emergency
analyze_emergency(trained, fit, req) ==
    IF ~req.json
    THEN [analysis |-> NotCalled, risk_assessment |-> NotCalled,
          response |-> ErrorReply("BadRequest")]
    ELSE
    LET sensor_data == Get(req.data, "sensorData", EmptyDict)
        accident_analysis == detect_accident(trained, fit, sensor_data)
        detected == Get(accident_analysis, "accident_detected", FALSE)
        heart == HeartRateOf(sensor_data)
        oxygen == OxygenLevelOf(sensor_data)
        recommendations ==
            (IF detected
             THEN <<"Immediate medical attention required",
                    "Contact emergency services",
                    "Do not move if spinal injury suspected">>
             ELSE << >>)
            \o (IF heart.val > 1000 THEN <<"Monitor vital signs">> ELSE << >>)
            \o (IF oxygen.val < 950 THEN <<"Ensure clear airway">> ELSE << >>)
        risk_factors ==
            (IF detected THEN <<"High impact detected">> ELSE << >>)
            \o (IF heart.val > 1000 THEN <<"Elevated heart rate">> ELSE << >>)
            \o (IF oxygen.val < 950 THEN <<"Low oxygen saturation">> ELSE << >>)
    IN  [analysis |-> accident_analysis,
         risk_assessment |-> NotCalled,
         response |->
            IF ~IsNum(heart) \/ ~IsNum(oxygen)
            THEN ErrorReply("TypeError")
            ELSE Reply(200,
                 [accidentProbability |->
                      Get(accident_analysis, "accident_probability", 0),
                  riskFactors |-> risk_factors,
                  recommendedAction |-> RecommendedAction(recommendations),
                  confidence |-> Get(accident_analysis, "confidence", 50),
                  urgency |-> IF detected THEN "critical" ELSE "medium",
                  analysis |-> accident_analysis])]

\* assess_driving_risk, the handler of /api/assess-risk
assess_risk(trained, fit, req) ==
    IF ~req.json
    THEN [analysis |-> NotCalled, risk_assessment |-> NotCalled,
          response |-> ErrorReply("BadRequest")]
    ELSE
    LET driving_history == Get(req.data, "drivingHistory", << >>)
        current_sensor_data == Get(req.data, "currentSensorData", EmptyDict)
        assessment == assess_driving_risk(driving_history)
        current_analysis == detect_accident(trained, fit, current_sensor_data)
    IN  [analysis |-> current_analysis,
         risk_assessment |-> assessment,
         response |->
            Reply(200,
                 [riskScore |-> Get(assessment, "risk_score", 500),
                  riskLevel |-> Get(assessment, "risk_level", "medium"),
                  riskFactors |-> Get(assessment, "risk_factors", {}),
                  recommendations |-> Get(assessment, "recommendations", << >>),
                  currentDrivingStatus |->
                      [safe |-> ~Get(current_analysis, "accident_detected", FALSE),
                       alertLevel |->
                           Get(current_analysis, "risk_level", "medium")]])]

\* an entry of alerts; arg is the speed the speed warning quotes, else 0
Alert(text, arg) == [text |-> text, arg |-> arg]

\* HarshAcceleration with a fault: the norm of the whole vector, z included
HarshAccelerationXYZ(accel) ==
    SumSquares(Get(accel, "x", Num(0)), Get(accel, "y", Num(0)),
               Get(accel, "z", Num(0 - 98))) > 80 * 80

\* np.sqrt(accel.get('x', 0)**2 + accel.get('y', 0)**2) > 8
HarshAcceleration(accel) ==
    SumSquares(Get(accel, "x", Num(0)), Get(accel, "y", Num(0)), Num(0)) > 80 * 80

\* max(0, 100 - len(behaviors) * 20)
SafetyScore(behaviors) ==
    IF 100 - Len(behaviors) * 20 > 0 THEN 100 - Len(behaviors) * 20 ELSE 0

\* predict_behavior
predict_behavior(trained, fit, req) ==
    IF ~req.json
    THEN [analysis |-> NotCalled, risk_assessment |-> NotCalled,
          response |-> ErrorReply("BadRequest")]
    ELSE
    LET sensor_data == Get(req.data, "sensorData", EmptyDict)
        speed == Get(sensor_data, "speed", Num(0))
        accel == Get(sensor_data, "accelerometer", EmptyDict)
        gyro == Get(sensor_data, "gyroscope", EmptyDict)
        gx == Get(gyro, "x", Num(0))
        gy == Get(gyro, "y", Num(0))
        gz == Get(gyro, "z", Num(0))
        speeding == speed.val > 800
        harsh == HarshAcceleration(accel)
        sharp == SumSquares(gx, gy, gz) > 20 * 20
        behaviors ==
            (IF speeding THEN <<"speeding">> ELSE << >>)
            \o (IF harsh THEN <<"harsh_acceleration">> ELSE << >>)
            \o (IF sharp THEN <<"sharp_turning">> ELSE << >>)
        alerts ==
            (IF speeding THEN <<Alert("Speed warning", speed.val)>> ELSE << >>)
            \o (IF harsh THEN <<Alert("Harsh acceleration detected", 0)>> ELSE << >>)
            \o (IF sharp THEN <<Alert("Sharp turning detected", 0)>> ELSE << >>)
    IN  [analysis |-> detect_accident(trained, fit, sensor_data),
         risk_assessment |-> NotCalled,
         response |->
            IF \/ ~IsNum(speed)
               \/ ~IsNum(Get(accel, "x", Num(0)))
               \/ ~IsNum(Get(accel, "y", Num(0)))
               \/ ~IsNum(gx) \/ ~IsNum(gy) \/ ~IsNum(gz)
            THEN ErrorReply("TypeError")
            ELSE Reply(200,
                 [riskyBehaviors |-> behaviors,
                  alerts |-> alerts,
                  safetyScore |-> SafetyScore(behaviors),
                  recommendations |-> <<"Maintain steady speed",
                                        "Smooth acceleration and braking",
                                        "Gentle steering inputs">>])]

\* the handler the route table gives an endpoint
Handle(trained, fit, req) ==
    CASE req.endpoint = "/api/analyze-emergency" -> analyze_emergency(trained, fit, req)
      [] req.endpoint = "/api/assess-risk" -> assess_risk(trained, fit, req)
      [] req.endpoint = "/api/predict-behavior" -> predict_behavior(trained, fit, req)
      [] OTHER -> [analysis |-> NotCalled, risk_assessment |-> NotCalled,
                   response |-> health_check(trained)]

(***************************************************************************)
(* The requests the clients send                                           *)
(***************************************************************************)
\* a sensor record with every field given its default explicitly
AllDefaults ==
    [accelerometer |-> [x |-> Num(0), y |-> Num(0), z |-> Num(0 - 98)],
     gyroscope |-> [x |-> Num(0), y |-> Num(0), z |-> Num(0)],
     speed |-> Num(0), heartRate |-> Num(750), oxygenLevel |-> Num(980)]

\* sensor records on both sides of every threshold the handlers compare with
SensorSamples ==
    { EmptyDict, AllDefaults,
      [speed |-> Num(800)], [speed |-> Num(810)], [speed |-> Str],
      [heartRate |-> Num(1000)], [heartRate |-> Num(1010)], [heartRate |-> Str],
      [oxygenLevel |-> Num(950)], [oxygenLevel |-> Num(940)],
      [heartRate |-> Num(1010), oxygenLevel |-> Num(940)],
      [accelerometer |-> EmptyDict],
      [accelerometer |-> [x |-> Num(80)]],
      [accelerometer |-> [x |-> Num(60), y |-> Num(60)]],
      [accelerometer |-> [z |-> Num(0)]],
      [accelerometer |-> [z |-> Str]],
      [accelerometer |-> [x |-> Num(81), z |-> Num(0)], heartRate |-> Num(900)],
      [gyroscope |-> [x |-> Num(20)]],
      [gyroscope |-> [x |-> Num(21)]],
      [gyroscope |-> [x |-> Num(10), y |-> Num(10), z |-> Num(20)]],
      [gyroscope |-> [y |-> Str]],
      [speed |-> Num(1200), accelerometer |-> [x |-> Num(100), y |-> Num(0 - 100)],
       gyroscope |-> [z |-> Num(0 - 40)], heartRate |-> Num(1300),
       oxygenLevel |-> Num(900)] }

\* records of a driving history: speeding with braking that is hard only by
\* the default z, a turn of 2.5 rad/s, and a speed that is not a number
HistoryRecords ==
    { [sensorData |-> [speed |-> Num(1010), accelerometer |-> [x |-> Num(120)]]],
      [sensorData |-> [gyroscope |-> [x |-> Num(25)]]],
      [sensorData |-> [speed |-> Str]] }

\* a record without sensorData: every default, nothing added to total_score
QuietRecord == EmptyDict

\* the records of a history besides a run of QuietRecord
MaxExtra == 2

\* the sequences over S of length at most n
SeqUpTo(S, n) == UNION {[1 .. k -> S] : k \in 0 .. n}

\* driving histories up to and beyond the 100 records the assessment reads:
\* a few records alone, before 100 quiet records, or after them
Histories ==
    LET extra == SeqUpTo(HistoryRecords, MaxExtra)
        quiet == [i \in 1 .. 100 |-> QuietRecord]
    IN  extra \cup {e \o quiet : e \in extra} \cup {quiet \o e : e \in extra}

Req(endpoint, json, data) == [endpoint |-> endpoint, json |-> json, data |-> data]

AnalyzeRequests ==
    {Req("/api/analyze-emergency", TRUE, [sensorData |-> s]) : s \in SensorSamples}
    \cup {Req("/api/analyze-emergency", TRUE, EmptyDict),
          Req("/api/analyze-emergency", FALSE, EmptyDict)}

AssessRequests ==
    {Req("/api/assess-risk", TRUE, [drivingHistory |-> h]) : h \in Histories}
    \cup {Req("/api/assess-risk", TRUE,
              [drivingHistory |-> h, currentSensorData |-> s]) :
          h \in SeqUpTo(HistoryRecords, 1),
          s \in {AllDefaults, [speed |-> Str], [accelerometer |-> [x |-> Num(81)]]}}
    \cup {Req("/api/assess-risk", TRUE, EmptyDict),
          Req("/api/assess-risk", FALSE, EmptyDict)}

PredictRequests ==
    {Req("/api/predict-behavior", TRUE, [sensorData |-> s]) : s \in SensorSamples}
    \cup {Req("/api/predict-behavior", TRUE, EmptyDict),
          Req("/api/predict-behavior", FALSE, EmptyDict)}

HealthRequest == Req("/health", TRUE, EmptyDict)

(***************************************************************************)
(* The service                                                             *)
(***************************************************************************)
\* detector = AccidentDetector(): _train_models either completes a fit and
\* sets is_trained, or logs the exception and leaves is_trained False
Init ==
    /\ \/ is_trained = TRUE /\ estimators \in Fits
       \/ is_trained = FALSE /\ estimators = Unfitted
    /\ request = Req("none", TRUE, EmptyDict)
    /\ analysis = NotCalled
    /\ risk_assessment = NotCalled
    /\ response = Reply(0, EmptyDict)

\* a handler has run on req and left out: the request, its locals and its
\* response are recorded
Answer(req, out) ==
    /\ request' = req
    /\ analysis' = out.analysis
    /\ risk_assessment' = out.risk_assessment
    /\ response' = out.response

\* health_check with a fault: the handler clears detector.is_trained
HealthCheckClearing ==
    /\ Answer(HealthRequest,
              [analysis |-> NotCalled, risk_assessment |-> NotCalled,
               response |-> health_check(is_trained)])
    /\ is_trained' = FALSE
    /\ UNCHANGED estimators

\* GET /health: reads detector.is_trained
HealthCheck ==
    /\ Answer(HealthRequest,
              [analysis |-> NotCalled, risk_assessment |-> NotCalled,
               response |-> health_check(is_trained)])
    /\ UNCHANGED <<is_trained, estimators>>

\* POST /api/analyze-emergency: reads the detector, assigns nothing of it
AnalyzeEmergency ==
    \E req \in AnalyzeRequests :
        /\ Answer(req, analyze_emergency(is_trained, estimators, req))
        /\ UNCHANGED <<is_trained, estimators>>

\* POST /api/assess-risk: reads the detector, assigns nothing of it
AssessRisk ==
    \E req \in AssessRequests :
        /\ Answer(req, assess_risk(is_trained, estimators, req))
        /\ UNCHANGED <<is_trained, estimators>>

\* POST /api/predict-behavior: reads the detector, assigns nothing of it
PredictBehavior ==
    \E req \in PredictRequests :
        /\ Answer(req, predict_behavior(is_trained, estimators, req))
        /\ UNCHANGED <<is_trained, estimators>>

Next == HealthCheck \/ AnalyzeEmergency \/ AssessRisk \/ PredictBehavior

Spec == Init /\ [][Next]_vars

(***************************************************************************)
(* Reading the last request                                                *)
(***************************************************************************)
Post == {"/api/analyze-emergency", "/api/assess-risk", "/api/predict-behavior"}

\* the sensor record the last handler passed to detect_accident
SensorDataOf(req) ==
    IF req.endpoint = "/api/assess-risk"
    THEN Get(req.data, "currentSensorData", EmptyDict)
    ELSE Get(req.data, "sensorData", EmptyDict)

HistoryOf(req) == Get(req.data, "drivingHistory", << >>)

\* d with key set to value
Put(d, key, value) ==
    [k \in DOMAIN d \cup {key} |-> IF k = key THEN value ELSE d[k]]

\* the defaults section 3 of the specification gives the sensor fields
SpecDefault ==
    [accelerometer |-> [x |-> Num(0), y |-> Num(0), z |-> Num(0 - 98)],
     gyroscope |-> [x |-> Num(0), y |-> Num(0), z |-> Num(0)],
     speed |-> Num(0), heartRate |-> Num(750), oxygenLevel |-> Num(980)]

\* the absent fields of sensor record sd, as <<group, axis>> or <<field>>
AbsentFields(sd) ==
    {<<f>> : f \in {"speed", "heartRate", "oxygenLevel"} \ DOMAIN sd}
    \cup UNION {{<<g, a>> : a \in {"x", "y", "z"} \ DOMAIN Get(sd, g, EmptyDict)} :
                g \in {"accelerometer", "gyroscope"}}

\* sd with the field at path set explicitly to its default, if it is absent
Fill(sd, path) ==
    IF path \notin AbsentFields(sd) THEN sd
    ELSE IF Len(path) = 1 THEN Put(sd, path[1], SpecDefault[path[1]])
    ELSE Put(sd, path[1],
             Put(Get(sd, path[1], EmptyDict), path[2], SpecDefault[path[1]][path[2]]))

FieldPaths ==
    {<<f>> : f \in {"speed", "heartRate", "oxygenLevel"}}
    \cup {<<g, a>> : g \in {"accelerometer", "gyroscope"}, a \in {"x", "y", "z"}}

\* req with the field at path set explicitly in the sensor record it carries
FillSensorData(req, path) ==
    LET key == IF req.endpoint = "/api/assess-risk"
               THEN "currentSensorData" ELSE "sensorData"
    IN  Req(req.endpoint, req.json,
            Put(req.data, key, Fill(Get(req.data, key, EmptyDict), path)))

\* req with the field at path set explicitly in every record of its history
FillHistory(req, path) ==
    LET h == HistoryOf(req) IN
    Req(req.endpoint, req.json,
        Put(req.data, "drivingHistory",
            [i \in 1 .. Len(h) |->
                Put(h[i], "sensorData",
                    Fill(Get(h[i], "sensorData", EmptyDict), path))]))

\* what the handler leaves for req, the detector being as it is
Outcome(req) == Handle(is_trained, estimators, req)

Current == [analysis |-> analysis, risk_assessment |-> risk_assessment,
            response |-> response]

(***************************************************************************)
(* C1                                                                      *)
(***************************************************************************)
\* the last request met a failure: a body that is not JSON, detect_accident
\* or assess_driving_risk ending in its except branch, or an untrained detector
RequestFailed ==
    \/ ~request.json
    \/ "error" \in DOMAIN analysis
    \/ "error" \in DOMAIN risk_assessment

\* C1: every failure while handling a POST request is answered with status
\* 500 and a JSON body that has an 'error' field, never with a 200 response
\* built from default values.
C1_FailureIs500 ==
    (request.endpoint \in Post /\ RequestFailed)
        => (response.status = 500 /\ "error" \in DOMAIN response.body)

(***************************************************************************)
(* C2                                                                      *)
(***************************************************************************)
\* C2: handling a request leaves is_trained and the fitted estimators as
\* they were at start-up, and the response is the one the handler gives that
\* request body on the start-up detector, whatever requests came before.
C2_DetectorReadOnly ==
    [][/\ is_trained' = is_trained
       /\ estimators' = estimators
       /\ response' = Handle(is_trained, estimators, request').response]_vars

\* a request answered after an earlier one of another endpoint changed nothing
C2_Witness ==
    /\ is_trained
    /\ request.endpoint = "/api/assess-risk"
    /\ response.status = 200
    /\ response.body.currentDrivingStatus.safe = FALSE

(***************************************************************************)
(* C3                                                                      *)
(***************************************************************************)
\* C3: a result of assess_driving_risk that is not an error has a risk_score
\* within 0..100 (0..1000 tenths) and a risk_level among low, medium, high.
C3_ScoreAndLevelInRange ==
    "risk_score" \in DOMAIN risk_assessment
        => /\ risk_assessment.risk_score \in 0 .. 1000
           /\ risk_assessment.risk_level \in {"low", "medium", "high"}

\* a history whose average passes 100 before the clamp
C3_Witness ==
    /\ "risk_score" \in DOMAIN risk_assessment
    /\ HistoryOf(request) # << >>
    /\ risk_assessment.risk_score = 1000

(***************************************************************************)
(* C4                                                                      *)
(***************************************************************************)
\* C4: setting an absent sensor field explicitly to its default (in the
\* record given to detect_accident, analyze_emergency or predict_behavior,
\* or in the records of the history given to assess_driving_risk) changes
\* nothing of what the handler computes and answers.
C4_AbsentIsDefault ==
    (request.endpoint \in Post /\ request.json)
        => \A path \in FieldPaths :
              /\ Outcome(FillSensorData(request, path)) = Current
              /\ request.endpoint = "/api/assess-risk"
                    => Outcome(FillHistory(request, path)) = Current

\* a request without heartRate whose oxygen level is low
C4_Witness ==
    /\ request.endpoint = "/api/analyze-emergency"
    /\ response.status = 200
    /\ "heartRate" \notin DOMAIN SensorDataOf(request)
    /\ "oxygenLevel" \in DOMAIN SensorDataOf(request)
    /\ response.body.riskFactors = <<"Low oxygen saturation">>

(***************************************************************************)
(* C5                                                                      *)
(***************************************************************************)
\* the threshold bucket of a risk score in tenths
Bucket(score) ==
    IF score > 800 THEN "high" ELSE IF score > 600 THEN "medium" ELSE "low"

\* C5: the risk_level assess_driving_risk returns is the threshold bucket of
\* the risk_score it returns (high above 80, medium above 60 up to 80, low
\* up to 60), for every driving history, the empty one included.
C5_LevelIsBucketOfScore ==
    "risk_score" \in DOMAIN risk_assessment
        => risk_assessment.risk_level = Bucket(risk_assessment.risk_score)

(***************************************************************************)
(* C6                                                                      *)
(***************************************************************************)
\* C6: every /api/assess-risk response that is not an error carries the
\* recommendations of the riskLevel it reports (3 for low, 4 for medium, 6
\* for high), also for an empty or missing history.
C6_RecommendationsMatchLevel ==
    (request.endpoint = "/api/assess-risk" /\ response.status = 200)
        => /\ response.body.recommendations
                  = Recommendations[response.body.riskLevel]
           /\ Len(response.body.recommendations)
                  = CASE response.body.riskLevel = "low" -> 3
                      [] response.body.riskLevel = "medium" -> 4
                      [] OTHER -> 6

(***************************************************************************)
(* C7                                                                      *)
(***************************************************************************)
\* the anomaly verdict the detector reached for the last request
WasAnomaly == anomaly_predict(estimators, Features(SensorDataOf(request)))

\* C7: accident_detected is true exactly when the probability p is above 0.7
\* or the reading is an anomaly and p is above 0.4; confidence is p when an
\* accident is detected and 1 - p otherwise, so it lies in 0.3..1.
C7_DetectionAndConfidence ==
    "accident_detected" \in DOMAIN analysis
        => LET p == analysis.accident_probability IN
           /\ p \in 0 .. 100
           /\ analysis.accident_detected <=> (p > 70 \/ (WasAnomaly /\ p > 40))
           /\ analysis.confidence = IF analysis.accident_detected THEN p ELSE 100 - p
           /\ analysis.confidence \in 30 .. 100

\* an anomaly with p = 0.7: detected by the second disjunct alone
C7_Witness ==
    /\ "accident_detected" \in DOMAIN analysis
    /\ analysis.accident_probability = 70
    /\ WasAnomaly
    /\ analysis.accident_detected
    /\ analysis.confidence = 70

(***************************************************************************)
(* C8                                                                      *)
(***************************************************************************)
\* the last 100 records of history h, or all of them when there are fewer
Last100(h) ==
    LET n == IF Len(h) < 100 THEN Len(h) ELSE 100 IN
    [i \in 1 .. n |-> h[Len(h) - n + i]]

\* the score of 50 plus ten times the average of RecordScore over window w,
\* kept within 0..100 and rounded to a tenth
WindowScore(w) ==
    LET total == TotalScore(w, Kinds(w))
        tenths == [num |-> 500 * Len(w) + 100 * total, den |-> Len(w)]
    IN  IF tenths.num > 1000 * tenths.den THEN 1000 ELSE Round1(tenths)

\* C8: the assessment depends on the last 100 records only: it is the
\* assessment of those records alone, whatever came before them, and its
\* score averages over the number of records in that window.
C8_OnlyLast100Count ==
    request.endpoint = "/api/assess-risk" /\ request.json
        => LET w == Last100(HistoryOf(request)) IN
           /\ risk_assessment = assess_driving_risk(w)
           /\ ("risk_score" \in DOMAIN risk_assessment /\ w # << >>)
                 => risk_assessment.risk_score = WindowScore(w)

\* a speeding record pushed out of the window by 100 quiet ones
C8_Witness ==
    /\ request.endpoint = "/api/assess-risk"
    /\ Len(HistoryOf(request)) > 100
    /\ RecordScore(HistoryOf(request)[1]) > 0
    /\ "risk_score" \in DOMAIN risk_assessment
    /\ risk_assessment.risk_score = 500
    /\ risk_assessment.risk_factors = {}

(***************************************************************************)
(* C9                                                                      *)
(***************************************************************************)
\* C9: in a successful /api/analyze-emergency response urgency is critical
\* exactly when the analysis reports an accident, else medium; the
\* recommended action is immediate medical attention on an accident, else
\* monitoring vital signs when heartRate > 100, else a clear airway when
\* oxygenLevel < 95, else monitoring the situation; riskFactors names the
\* elevated heart rate iff heartRate > 100 and the low oxygen saturation iff
\* oxygenLevel < 95.
C9_EmergencyResponse ==
    (request.endpoint = "/api/analyze-emergency" /\ response.status = 200)
        => LET sd == SensorDataOf(request)
               heart == Get(sd, "heartRate", SpecDefault.heartRate).val
               oxygen == Get(sd, "oxygenLevel", SpecDefault.oxygenLevel).val
               detected == "accident_detected" \in DOMAIN response.body.analysis
                           /\ response.body.analysis.accident_detected
               factors == {response.body.riskFactors[i] :
                              i \in 1 .. Len(response.body.riskFactors)}
           IN
           /\ response.body.urgency = IF detected THEN "critical" ELSE "medium"
           /\ response.body.recommendedAction =
                  IF detected THEN "Immediate medical attention required"
                  ELSE IF heart > 1000 THEN "Monitor vital signs"
                  ELSE IF oxygen < 950 THEN "Ensure clear airway"
                  ELSE "Monitor situation"
           /\ "Elevated heart rate" \in factors <=> heart > 1000
           /\ "Low oxygen saturation" \in factors <=> oxygen < 950

\* an accident together with a high heart rate and low oxygen
C9_Witness ==
    /\ request.endpoint = "/api/analyze-emergency"
    /\ response.status = 200
    /\ response.body.urgency = "critical"
    /\ response.body.riskFactors = <<"High impact detected", "Elevated heart rate",
                                    "Low oxygen saturation">>

(***************************************************************************)
(* C10                                                                     *)
(***************************************************************************)
\* the text of the alert each behaviour raises
AlertText ==
    [speeding |-> "Speed warning",
     harsh_acceleration |-> "Harsh acceleration detected",
     sharp_turning |-> "Sharp turning detected"]

\* the behaviours and alerts of a successful /api/predict-behavior response,
\* harsh telling whether the acceleration counts as harsh
BehaviourResponse(harsh) ==
    LET sd == SensorDataOf(request)
        gyro == Get(sd, "gyroscope", EmptyDict)
        speeding == Get(sd, "speed", SpecDefault.speed).val > 800
        sharp == SumSquares(Get(gyro, "x", Num(0)), Get(gyro, "y", Num(0)),
                            Get(gyro, "z", Num(0))) > 20 * 20
        expected == (IF speeding THEN <<"speeding">> ELSE << >>)
                    \o (IF harsh THEN <<"harsh_acceleration">> ELSE << >>)
                    \o (IF sharp THEN <<"sharp_turning">> ELSE << >>)
        body == response.body
    IN  /\ body.riskyBehaviors = expected
        /\ Len(body.alerts) = Len(body.riskyBehaviors)
        /\ \A i \in 1 .. Len(body.alerts) :
              body.alerts[i].text = AlertText[body.riskyBehaviors[i]]
        /\ body.safetyScore = 100 - 20 * Len(body.riskyBehaviors)
        /\ body.safetyScore \in {100, 80, 60, 40}

\* C10 as claimed: riskyBehaviors has speeding iff speed > 80,
\* harsh_acceleration iff the norm of the accelerometer vector (x, y, z)
\* exceeds 8, sharp_turning iff the gyroscope norm exceeds 2; alerts has one
\* entry per behaviour in the same order; safetyScore is 100 - 20 per
\* behaviour.
C10_Original ==
    (request.endpoint = "/api/predict-behavior" /\ response.status = 200)
        => LET accel == Get(SensorDataOf(request), "accelerometer", EmptyDict) IN
           BehaviourResponse(
               SumSquares(Get(accel, "x", SpecDefault.accelerometer.x),
                          Get(accel, "y", SpecDefault.accelerometer.y),
                          Get(accel, "z", SpecDefault.accelerometer.z)) > 80 * 80)

\* C10 as amended: harsh_acceleration is reported iff the norm of the x and y
\* components of the accelerometer reading exceeds 8 (z is not read); the
\* rest as claimed.
C10_BehaviourResponse ==
    (request.endpoint = "/api/predict-behavior" /\ response.status = 200)
        => LET accel == Get(SensorDataOf(request), "accelerometer", EmptyDict) IN
           BehaviourResponse(
               SumSquares(Get(accel, "x", SpecDefault.accelerometer.x),
                          Get(accel, "y", SpecDefault.accelerometer.y),
                          Num(0)) > 80 * 80)

\* all three behaviours at once: the lowest safety score
C10_Witness ==
    /\ request.endpoint = "/api/predict-behavior"
    /\ response.status = 200
    /\ response.body.riskyBehaviors = <<"speeding", "harsh_acceleration", "sharp_turning">>
    /\ response.body.safetyScore = 40
====
